---------------------------- MODULE Spec2Model ----------------------------
(***************************************************************************)
(* Model of the AppPilot document converter:                               *)
(*   src/utils/fileHelpers.ts      createEpubBlob, createMobiBlob          *)
(*   src/services/geminiService.ts convertLocalFile (format normalizer and *)
(*                                 PDF paragraph reconstruction)           *)
(*   src/App.tsx                   App (selection, conversion, reset)      *)
(*   src/components/Dropzone.tsx   validateAndSelect                       *)
(*                                                                         *)
(* JavaScript strings are sequences of UTF-16 code units (naturals below   *)
(* 65536); byte buffers are sequences of naturals below 256, the byte at   *)
(* offset o being element o + 1.                                           *)
(***************************************************************************)
EXTENDS Integers, Sequences, FiniteSets, TLC

VARIABLES
    mobi,               \* createMobiBlob: inputs, position, buffer, cursors
    epub,               \* createEpubBlob: inputs, position, archive entries
    file,               \* convertLocalFile: request.file (type, name)
    textData,           \* convertLocalFile: request.textData
    env,                \* window.mammoth / window.pdfjsLib and what they yield
    pc,                 \* convertLocalFile: position in the function
    pageNum,            \* convertLocalFile: loop variable i
    items,              \* convertLocalFile: mapped and sorted items of the page
    itemIdx,            \* convertLocalFile: number of items already walked
    pageHtml,           \* convertLocalFile: pageHtml
    lastY,              \* convertLocalFile: lastY
    currentParagraph,   \* convertLocalFile: currentParagraph
    fullHtml,           \* convertLocalFile: fullHtml
    branch,             \* convertLocalFile: the branch the last step took
    calls,              \* convertLocalFile: external collaborators invoked so far
    outcome,            \* convertLocalFile: pending, returned value or thrown error
    app,                \* App: the component's state and the globals it depends on
    job                 \* App: the handleConvert call in flight (closure, position)

vars == <<mobi, epub, file, textData, env, pc, pageNum, items, itemIdx,
          pageHtml, lastY, currentParagraph, fullHtml, branch, calls, outcome,
          app, job>>

appVars == <<app, job>>

convVars == <<file, textData, env, pc, pageNum, items, itemIdx,
              pageHtml, lastY, currentParagraph, fullHtml, branch, calls, outcome>>

-----------------------------------------------------------------------------
(* Sequences and strings                                                   *)

Min(a, b) == IF a < b THEN a ELSE b

\* The concatenation of the sequences ss[lo], ..., ss[hi].
RECURSIVE ConcatRange(_, _, _)
ConcatRange(ss, lo, hi) ==
    IF lo > hi THEN <<>>
    ELSE IF lo = hi THEN ss[lo]
    ELSE ConcatRange(ss, lo, (lo + hi) \div 2)
         \o ConcatRange(ss, ((lo + hi) \div 2) + 1, hi)

Flatten(ss) == ConcatRange(ss, 1, Len(ss))

\* All sequences of at most n elements of S.
SeqsUpTo(S, n) == UNION {[1..k -> S] : k \in 0..n}

\* String.prototype.substring(0, n)
Substring0(s, n) == SubSeq(s, 1, Min(n, Len(s)))

\* String.prototype.startsWith / endsWith
StartsWith(s, p) == Len(p) <= Len(s) /\ SubSeq(s, 1, Len(p)) = p
EndsWith(s, p) == Len(p) <= Len(s) /\ SubSeq(s, Len(s) - Len(p) + 1, Len(s)) = p

\* s contains p as a substring.
Contains(s, p) ==
    \E i \in 0..(Len(s) - Len(p)) : SubSeq(s, i + 1, i + Len(p)) = p

\* White space and line terminators removed by String.prototype.trim
IsWhiteSpace(c) ==
    c \in {9, 10, 11, 12, 13, 32, 160, 5760, 8232, 8233, 8239, 8287, 12288, 65279}
    \/ (c >= 8192 /\ c <= 8202)

RECURSIVE TrimStart(_)
TrimStart(s) ==
    IF s # <<>> /\ IsWhiteSpace(Head(s)) THEN TrimStart(Tail(s)) ELSE s

RECURSIVE TrimEnd(_)
TrimEnd(s) ==
    IF s # <<>> /\ IsWhiteSpace(s[Len(s)])
    THEN TrimEnd(SubSeq(s, 1, Len(s) - 1)) ELSE s

Trim(s) == TrimEnd(TrimStart(s))

-----------------------------------------------------------------------------
(* TextEncoder.encode: UTF-16 code units to UTF-8 bytes.  A surrogate pair *)
(* is one code point of four bytes; a lone surrogate becomes U+FFFD.       *)

IsHighSurrogate(c) == c >= 55296 /\ c <= 56319
IsLowSurrogate(c) == c >= 56320 /\ c <= 57343

Utf8OfCodePoint(cp) ==
    IF cp < 128 THEN <<cp>>
    ELSE IF cp < 2048 THEN <<192 + (cp \div 64), 128 + (cp % 64)>>
    ELSE IF cp < 65536
         THEN <<224 + (cp \div 4096), 128 + ((cp \div 64) % 64), 128 + (cp % 64)>>
    ELSE <<240 + (cp \div 262144), 128 + ((cp \div 4096) % 64),
           128 + ((cp \div 64) % 64), 128 + (cp % 64)>>

\* The bytes the code unit at position i contributes: a high surrogate
\* followed by a low one carries the pair's four bytes, the low one of the
\* pair nothing, any other surrogate the three bytes of U+FFFD.
UnitBytes(s, i) ==
    IF IsHighSurrogate(s[i])
    THEN IF i < Len(s) /\ IsLowSurrogate(s[i + 1])
         THEN Utf8OfCodePoint(65536 + (s[i] - 55296) * 1024 + (s[i + 1] - 56320))
         ELSE <<239, 191, 189>>
    ELSE IF IsLowSurrogate(s[i])
    THEN IF i > 1 /\ IsHighSurrogate(s[i - 1]) THEN <<>> ELSE <<239, 191, 189>>
    ELSE Utf8OfCodePoint(s[i])

stringToUint8Array(str) == Flatten([i \in 1..Len(str) |-> UnitBytes(str, i)])

-----------------------------------------------------------------------------
(* DataView writes.  A write is [off, bytes]; one that does not fit in the *)
(* buffer throws a RangeError.                                             *)

\* The n big-endian bytes of val, taken modulo 2^(8n) as setUint16/32 do.
RECURSIVE BigEndian(_, _)
BigEndian(val, n) ==
    IF n = 0 THEN <<>> ELSE BigEndian(val \div 256, n - 1) \o <<val % 256>>

Uint16At(off, val) == [off |-> off, bytes |-> BigEndian(val, 2)]
Uint32At(off, val) == [off |-> off, bytes |-> BigEndian(val, 4)]

\* A 32-bit value that may pass 2^31 is held as its two 16-bit halves
\* [hi, lo].
Uint32HalvesAt(off, val) ==
    [off |-> off, bytes |-> BigEndian(val.hi, 2) \o BigEndian(val.lo, 2)]

\* writeString: length bytes at offset, the encoded string then zeros.
writeString(offset, str, length) ==
    LET bytes == stringToUint8Array(str)
    IN [off |-> offset,
        bytes |-> [i \in 1..length |-> IF i <= Len(bytes) THEN bytes[i] ELSE 0]]

WriteFits(buf, w) == w.off >= 0 /\ w.off + Len(w.bytes) <= Len(buf)

\* The buffer after the writes ws, made in order: each byte holds what the
\* last write covering it put there.
ApplyWrites(buf, ws) ==
    [i \in 1..Len(buf) |->
        LET covering == {k \in 1..Len(ws) :
                            i > ws[k].off /\ i <= ws[k].off + Len(ws[k].bytes)}
        IN IF covering = {} THEN buf[i]
           ELSE LET last == CHOOSE k \in covering : \A j \in covering : j <= k
                IN ws[last].bytes[i - ws[last].off]]

\* DataView.getUint32 / getUint16, big-endian
GetUint32(buf, off) ==
    buf[off + 1] * 16777216 + buf[off + 2] * 65536 + buf[off + 3] * 256 + buf[off + 4]
GetUint16(buf, off) == buf[off + 1] * 256 + buf[off + 2]

-----------------------------------------------------------------------------
(* createMobiBlob (src/utils/fileHelpers.ts)                               *)

NAME_LEN == 32
PDB_HEADER_LEN == 78
RECORD_INFO_LEN == 8
PALMDOC_HEADER_LEN == 16
MOBI_HEADER_LEN == 232
EXTH_HEADER_LEN == 0
RECORD_0_LEN == PALMDOC_HEADER_LEN + MOBI_HEADER_LEN + EXTH_HEADER_LEN
numRecords == 2
PalmEpochShift == 2082844800

\* Math.floor(Date.now() / 1000) + 2082844800, as setUint32 stores it
\* (modulo 2^32), from the Unix seconds given as halves.
PalmNow(unix) ==
    LET lo == unix.lo + (PalmEpochShift % 65536)
        hi == unix.hi + (PalmEpochShift \div 65536) + (lo \div 65536)
    IN [hi |-> hi % 65536, lo |-> lo % 65536]

\* "BOOK", "MOBI"
StrBOOK == <<66, 79, 79, 75>>
StrMOBI == <<77, 79, 66, 73>>

\* The literal parts of
\* `<html><head><title>${title}</title></head><body><h1>${title}</h1>${htmlContent}</body></html>`
\* "<html><head><title>"
WrapOpen == <<60, 104, 116, 109, 108, 62, 60, 104, 101, 97, 100, 62,
              60, 116, 105, 116, 108, 101, 62>>
\* "</title></head><body><h1>"
WrapMid == <<60, 47, 116, 105, 116, 108, 101, 62, 60, 47, 104, 101, 97, 100, 62,
             60, 98, 111, 100, 121, 62, 60, 104, 49, 62>>
\* "</h1>"
WrapH1Close == <<60, 47, 104, 49, 62>>
\* "</body></html>"
WrapClose == <<60, 47, 98, 111, 100, 121, 62, 60, 47, 104, 116, 109, 108, 62>>

\* A plausible variant: an empty document is stored as an empty text record.
fullContentBareWhenEmpty(title, htmlContent) ==
    IF htmlContent = <<>> THEN <<>>
    ELSE WrapOpen \o title \o WrapMid \o title \o WrapH1Close \o htmlContent
         \o WrapClose

fullContent(title, htmlContent) ==
    WrapOpen \o title \o WrapMid \o title \o WrapH1Close \o htmlContent \o WrapClose

\* A plausible slip: the character count instead of the encoded byte count.
contentLenAsCharCount(title, htmlContent) == Len(fullContent(title, htmlContent))

\* contentLen = contentBytes.length
contentLen(title, htmlContent) ==
    Len(stringToUint8Array(fullContent(title, htmlContent)))

totalLen(title, htmlContent) ==
    PDB_HEADER_LEN + (numRecords * RECORD_INFO_LEN) + RECORD_0_LEN
    + contentLen(title, htmlContent)

\* The running cursor stored in the record-info table.
currentOffset0 == PDB_HEADER_LEN + (numRecords * RECORD_INFO_LEN)
currentOffset1 == currentOffset0 + RECORD_0_LEN

\* A plausible slip: one record-info entry instead of numRecords of them.
rec0StartOneEntry == PDB_HEADER_LEN + RECORD_INFO_LEN

\* Where Record 0 and Record 1 are written.
rec0Start == PDB_HEADER_LEN + (numRecords * RECORD_INFO_LEN)
mobiStart == rec0Start + PALMDOC_HEADER_LEN
contentStart == rec0Start + RECORD_0_LEN

\* The DataView writes of the function, in program order; now is
\* Math.floor(Date.now() / 1000) + 2082844800.
HeaderWrites(title, htmlContent, now) ==
    << writeString(0, Substring0(title, 31), NAME_LEN),
       Uint16At(32, 0),
       Uint16At(34, 0),
       Uint32HalvesAt(36, now),
       Uint32HalvesAt(40, now),
       Uint32At(44, 0),
       Uint32At(48, 0),
       Uint32At(52, 0),
       Uint32At(56, 0),
       writeString(60, StrBOOK, 4),
       writeString(64, StrMOBI, 4),
       Uint32At(68, 1),
       Uint32At(72, 0),
       Uint16At(76, numRecords),
       Uint32At(78, currentOffset0),
       Uint32At(82, 0),
       Uint32At(86, currentOffset1),
       Uint32At(90, 2),
       Uint16At(rec0Start, 1),
       Uint16At(rec0Start + 2, 0),
       Uint32At(rec0Start + 4, contentLen(title, htmlContent)),
       Uint16At(rec0Start + 8, 1),
       Uint16At(rec0Start + 10, 4096),
       Uint32At(rec0Start + 12, 0),
       writeString(mobiStart, StrMOBI, 4),
       Uint32At(mobiStart + 4, MOBI_HEADER_LEN),
       Uint32At(mobiStart + 8, 2),
       Uint32At(mobiStart + 12, 65001),
       Uint32At(mobiStart + 16, 123456789),
       Uint32At(mobiStart + 20, 6),
       Uint32At(mobiStart + 80, 0),
       Uint32At(mobiStart + 84, 0),
       Uint32At(mobiStart + 88, 0),
       Uint16At(mobiStart + 128, 0) >>

\* new Uint8Array(buffer, contentStart, contentLen).set(contentBytes)
ContentWriteFits(title, htmlContent) ==
    /\ contentStart + contentLen(title, htmlContent) <= totalLen(title, htmlContent)
    /\ Len(stringToUint8Array(fullContent(title, htmlContent)))
         <= contentLen(title, htmlContent)

ContentWrite(title, htmlContent) ==
    [off |-> contentStart,
     bytes |-> stringToUint8Array(fullContent(title, htmlContent))]

\* The function resolves unless one of its writes throws a RangeError.
MobiResolves(title, htmlContent, now) ==
    LET empty == [i \in 1..totalLen(title, htmlContent) |-> 0]
        hw == HeaderWrites(title, htmlContent, now)
    IN /\ \A k \in 1..Len(hw) : WriteFits(empty, hw[k])
       /\ ContentWriteFits(title, htmlContent)

MobiBuffer(title, htmlContent, now) ==
    ApplyWrites([i \in 1..totalLen(title, htmlContent) |-> 0],
                HeaderWrites(title, htmlContent, now)
                \o <<ContentWrite(title, htmlContent)>>)

\* title: string = "Converted E-Book"
DefaultTitle == <<67, 111, 110, 118, 101, 114, 116, 101, 100, 32, 69, 45, 66, 111,
                  111, 107>>

MobiIdle == [pc |-> "idle", titleArg |-> [defined |-> FALSE, value |-> <<>>],
             htmlContent |-> <<>>, unixSeconds |-> [hi |-> 0, lo |-> 0],
             buffer |-> <<>>, rec0Start |-> 0, contentStart |-> 0]

\* The title parameter after its default has been applied.
MobiTitle == IF mobi.titleArg.defined THEN mobi.titleArg.value ELSE DefaultTitle

createMobiBlob ==
    /\ UNCHANGED appVars
    /\ mobi.pc = "start"
    /\ mobi' =
         IF MobiResolves(MobiTitle, mobi.htmlContent, PalmNow(mobi.unixSeconds))
         THEN [mobi EXCEPT !.pc = "done",
                           !.buffer = MobiBuffer(MobiTitle, mobi.htmlContent,
                                                 PalmNow(mobi.unixSeconds)),
                           !.rec0Start = rec0Start,
                           !.contentStart = contentStart]
         ELSE [mobi EXCEPT !.pc = "threw"]
    /\ UNCHANGED epub
    /\ UNCHANGED convVars

-----------------------------------------------------------------------------
(* createEpubBlob (src/utils/fileHelpers.ts).  Its title, content and      *)
(* identifier are only interpolated into templates, so they are opaque     *)
(* strings here and a file's data is the sequence of its template parts.   *)
(* The archive is the list of the JSZip entries in insertion order, which  *)
(* is the order generateAsync serializes them in.                          *)

DefaultTitleEpub == "Converted E-Book"

ContainerXml ==
    << "<?xml version=\"1.0\"?>\n<container version=\"1.0\" xmlns=\"urn:oasis:names:tc:opendocument:xmlns:container\">\n   <rootfiles>\n      <rootfile full-path=\"OEBPS/content.opf\" media-type=\"application/oebps-package+xml\"/>\n   </rootfiles>\n</container>" >>

Css ==
    << "\n    body { font-family: serif; line-height: 1.5; margin: 5%; }\n    p { margin-bottom: 1em; text-indent: 0; }\n    h1, h2, h3 { font-family: sans-serif; margin-top: 1.5em; page-break-after: avoid; }\n    img { max-width: 100%; height: auto; }\n  " >>

XhtmlContent(title, htmlContent) ==
    << "<?xml version=\"1.0\" encoding=\"utf-8\"?>\n<!DOCTYPE html PUBLIC \"-//W3C//DTD XHTML 1.1//EN\" \"http://www.w3.org/TR/xhtml11/DTD/xhtml11.dtd\">\n<html xmlns=\"http://www.w3.org/1999/xhtml\">\n<head>\n  <title>",
       title,
       "</title>\n  <link rel=\"stylesheet\" type=\"text/css\" href=\"style.css\"/>\n</head>\n<body>\n  <h1>",
       title,
       "</h1>\n  ",
       htmlContent,
       "\n</body>\n</html>" >>

ContentOpf(title, uuid) ==
    << "<?xml version=\"1.0\" encoding=\"UTF-8\"?>\n<package xmlns=\"http://www.idpf.org/2007/opf\" unique-identifier=\"BookID\" version=\"2.0\">\n   <metadata xmlns:dc=\"http://purl.org/dc/elements/1.1/\" xmlns:opf=\"http://www.idpf.org/2007/opf\">\n      <dc:title>",
       title,
       "</dc:title>\n      <dc:language>en</dc:language>\n      <dc:identifier id=\"BookID\" opf:scheme=\"UUID\">",
       "urn:uuid:",
       uuid,
       "</dc:identifier>\n      <dc:creator>Offline Converter</dc:creator>\n   </metadata>\n   <manifest>\n      <item id=\"ncx\" href=\"toc.ncx\" media-type=\"application/x-dtbncx+xml\"/>\n      <item id=\"style\" href=\"style.css\" media-type=\"text/css\"/>\n      <item id=\"content\" href=\"content.xhtml\" media-type=\"application/xhtml+xml\"/>\n   </manifest>\n   <spine toc=\"ncx\">\n      <itemref idref=\"content\"/>\n   </spine>\n</package>" >>

TocNcx(uuid, title) ==
    << "<?xml version=\"1.0\" encoding=\"UTF-8\"?>\n<ncx xmlns=\"http://www.daisy.org/z3986/2005/ncx/\" version=\"2005-1\">\n   <head>\n      <meta name=\"dtb:uid\" content=\"",
       "urn:uuid:",
       uuid,
       "\"/>\n      <meta name=\"dtb:depth\" content=\"1\"/>\n      <meta name=\"dtb:totalPageCount\" content=\"0\"/>\n      <meta name=\"dtb:maxPageNumber\" content=\"0\"/>\n   </head>\n   <docTitle>\n      <text>",
       title,
       "</text>\n   </docTitle>\n   <navMap>\n      <navPoint id=\"navPoint-1\" playOrder=\"1\">\n         <navLabel>\n            <text>Start</text>\n         </navLabel>\n         <content src=\"content.xhtml\"/>\n      </navPoint>\n   </navMap>\n</ncx>" >>

\* JSZip.folder(name): the directory entry is created unless it exists.
ZipFolder(entries, name) ==
    IF \E i \in 1..Len(entries) : entries[i].name = name THEN entries
    ELSE Append(entries, [name |-> name, dir |-> TRUE, data |-> <<>>,
                          compression |-> "unset"])

\* JSZip.file(name, data, options): a new entry is appended, an existing
\* name keeps its place.
ZipFile(entries, name, data, compression) ==
    LET e == [name |-> name, dir |-> FALSE, data |-> data, compression |-> compression]
    IN IF \E i \in 1..Len(entries) : entries[i].name = name
       THEN [i \in 1..Len(entries) |-> IF entries[i].name = name THEN e ELSE entries[i]]
       ELSE Append(entries, e)

\* A plausible slip: container.xml written before mimetype.
EpubEntriesContainerFirst(title, htmlContent, uuid) ==
    LET z1 == ZipFile(ZipFolder(<<>>, "META-INF/"), "META-INF/container.xml",
                      ContainerXml, "unset")
        z2 == ZipFile(z1, "mimetype", <<"application/epub+zip">>, "STORE")
        z3 == ZipFolder(z2, "OEBPS/")
        z4 == ZipFile(z3, "OEBPS/style.css", Css, "unset")
        z5 == ZipFile(z4, "OEBPS/content.xhtml", XhtmlContent(title, htmlContent), "unset")
        z6 == ZipFile(z5, "OEBPS/content.opf", ContentOpf(title, uuid), "unset")
    IN ZipFile(z6, "OEBPS/toc.ncx", TocNcx(uuid, title), "unset")

\* The zip.file / zip.folder calls of the function, in program order.
EpubEntries(title, htmlContent, uuid) ==
    LET z1 == ZipFile(<<>>, "mimetype", <<"application/epub+zip">>, "STORE")
        z2 == ZipFile(ZipFolder(z1, "META-INF/"), "META-INF/container.xml",
                      ContainerXml, "unset")
        z3 == ZipFolder(z2, "OEBPS/")
        z4 == ZipFile(z3, "OEBPS/style.css", Css, "unset")
        z5 == ZipFile(z4, "OEBPS/content.xhtml", XhtmlContent(title, htmlContent), "unset")
        z6 == ZipFile(z5, "OEBPS/content.opf", ContentOpf(title, uuid), "unset")
    IN ZipFile(z6, "OEBPS/toc.ncx", TocNcx(uuid, title), "unset")

EpubIdle == [pc |-> "idle", titleArg |-> [defined |-> FALSE, value |-> ""],
             htmlContent |-> "", jszip |-> FALSE, entries |-> <<>>,
             mimeType |-> "", error |-> ""]

\* crypto.randomUUID()
UUIDs == {"6f1c2c3e-0b7a-4a51-9d53-0d8b2f4f7a01",
          "b2a9d6f0-5c1e-4e0b-8f3a-7c4d9e1a2b02",
          "00000000-0000-4000-8000-000000000000"}

createEpubBlob ==
    /\ UNCHANGED appVars
    /\ epub.pc = "start"
    /\ IF ~epub.jszip
       THEN epub' = [epub EXCEPT !.pc = "threw",
                        !.error = "JSZip library not loaded. Check internet connection."]
       ELSE \E uuid \in UUIDs :
               epub' = [epub EXCEPT
                          !.pc = "done",
                          !.entries = EpubEntries(
                                        IF epub.titleArg.defined THEN epub.titleArg.value
                                        ELSE DefaultTitleEpub,
                                        epub.htmlContent, uuid),
                          !.mimeType = "application/epub+zip"]
    /\ UNCHANGED mobi
    /\ UNCHANGED convVars

-----------------------------------------------------------------------------
(* JavaScript numbers as far as convertLocalFile uses them: finite values  *)
(* (integers here), NaN, the two infinities, and undefined.                *)

Fin(n) == [k |-> "fin", v |-> n]
NaN == [k |-> "nan", v |-> 0]
Inf(sign) == [k |-> "inf", v |-> sign]
Undefined == [k |-> "undef", v |-> 0]

IsFinite(a) == a.k = "fin"

\* a - b
Sub(a, b) ==
    IF a.k = "nan" \/ b.k = "nan" THEN NaN
    ELSE IF a.k = "fin" /\ b.k = "fin" THEN Fin(a.v - b.v)
    ELSE IF a.k = "inf" /\ b.k = "fin" THEN a
    ELSE IF a.k = "fin" /\ b.k = "inf" THEN Inf(0 - b.v)
    ELSE IF a.v = b.v THEN NaN ELSE a

\* Math.abs
Abs(a) ==
    IF a.k = "fin" THEN Fin(IF a.v < 0 THEN 0 - a.v ELSE a.v)
    ELSE IF a.k = "inf" THEN Inf(1)
    ELSE NaN

\* ToBoolean of a number or undefined: 0, NaN and undefined are falsy.
Truthy(a) == (a.k = "fin" /\ a.v # 0) \/ a.k = "inf"

\* a || b
OrElse(a, b) == IF Truthy(a) THEN a ELSE b

\* diffY > height * 1.5 (false whenever either side is NaN)
ExceedsGap(diffY, height) ==
    IF diffY.k \notin {"fin", "inf"} \/ height.k \notin {"fin", "inf"} THEN FALSE
    ELSE IF diffY.k = "fin" /\ height.k = "fin" THEN 2 * diffY.v > 3 * height.v
    ELSE IF diffY.k = "inf" /\ height.k = "fin" THEN diffY.v > 0
    ELSE IF diffY.k = "fin" /\ height.k = "inf" THEN height.v < 0
    ELSE diffY.v > height.v

\* The sign Array.prototype.sort takes from a comparator result (NaN is +0).
SignOf(a) ==
    IF a.k = "fin" THEN (IF a.v < 0 THEN -1 ELSE IF a.v > 0 THEN 1 ELSE 0)
    ELSE IF a.k = "inf" THEN a.v
    ELSE 0

-----------------------------------------------------------------------------
(* convertLocalFile (src/services/geminiService.ts)                        *)

DefaultHeight == 10

\* String literals of the function
StrSpace == <<32>>
\* "<p>", "</p>"
StrPOpen == <<60, 112, 62>>
StrPClose == <<60, 47, 112, 62>>
\* `<div class="page-content">`, `</div><hr class="page-break"/>`
StrPageOpen == <<60, 100, 105, 118, 32, 99, 108, 97, 115, 115, 61, 34, 112, 97,
                 103, 101, 45, 99, 111, 110, 116, 101, 110, 116, 34, 62>>
StrPageClose == <<60, 47, 100, 105, 118, 62, 60, 104, 114, 32, 99, 108, 97, 115,
                  115, 61, 34, 112, 97, 103, 101, 45, 98, 114, 101, 97, 107, 34,
                  47, 62>>
\* 'text/html', '.html', '.htm'
TypeHtml == <<116, 101, 120, 116, 47, 104, 116, 109, 108>>
ExtHtml == <<46, 104, 116, 109, 108>>
ExtHtm == <<46, 104, 116, 109>>
\* 'application/vnd.openxmlformats-officedocument.wordprocessingml.document', '.docx'
TypeDocx == <<97, 112, 112, 108, 105, 99, 97, 116, 105, 111, 110, 47, 118, 110,
              100, 46, 111, 112, 101, 110, 120, 109, 108, 102, 111, 114, 109, 97,
              116, 115, 45, 111, 102, 102, 105, 99, 101, 100, 111, 99, 117, 109,
              101, 110, 116, 46, 119, 111, 114, 100, 112, 114, 111, 99, 101, 115,
              115, 105, 110, 103, 109, 108, 46, 100, 111, 99, 117, 109, 101, 110,
              116>>
ExtDocx == <<46, 100, 111, 99, 120>>
\* 'application/pdf', '.pdf'
TypePdf == <<97, 112, 112, 108, 105, 99, 97, 116, 105, 111, 110, 47, 112, 100, 102>>
ExtPdf == <<46, 112, 100, 102>>
\* "Mammoth library not loaded"
MsgNoMammoth == <<77, 97, 109, 109, 111, 116, 104, 32, 108, 105, 98, 114, 97, 114,
                  121, 32, 110, 111, 116, 32, 108, 111, 97, 100, 101, 100>>
\* "PDF.js library not loaded"
MsgNoPdfJs == <<80, 68, 70, 46, 106, 115, 32, 108, 105, 98, 114, 97, 114, 121, 32,
                110, 111, 116, 32, 108, 111, 97, 100, 101, 100>>
\* "Unsupported file type for offline conversion."
MsgUnsupported == <<85, 110, 115, 117, 112, 112, 111, 114, 116, 101, 100, 32, 102,
                    105, 108, 101, 32, 116, 121, 112, 101, 32, 102, 111, 114, 32,
                    111, 102, 102, 108, 105, 110, 101, 32, 99, 111, 110, 118, 101,
                    114, 115, 105, 111, 110, 46>>
\* "Failed to convert locally: "
MsgFailedPrefix == <<70, 97, 105, 108, 101, 100, 32, 116, 111, 32, 99, 111, 110,
                     118, 101, 114, 116, 32, 108, 111, 99, 97, 108, 108, 121, 58,
                     32>>

\* String.prototype.toLowerCase on the Latin capitals (the names drawn
\* below hold no other cased character).
ToLowerCase(s) == [i \in 1..Len(s) |-> IF s[i] >= 65 /\ s[i] <= 90 THEN s[i] + 32 ELSE s[i]]

fileName == ToLowerCase(file.name)

IsHtml == file.type = TypeHtml \/ EndsWith(fileName, ExtHtml) \/ EndsWith(fileName, ExtHtm)
IsDocx == file.type = TypeDocx \/ EndsWith(fileName, ExtDocx)
IsPdf == file.type = TypePdf \/ EndsWith(fileName, ExtPdf)

\* The promise settles: return value, or throw new Error(`Failed to convert locally: ${error.message}`)
Pending == [k |-> "pending", value |-> <<>>]
Returned(html) == [k |-> "returned", value |-> html]
Threw(message) == [k |-> "threw", value |-> MsgFailedPrefix \o message]

\* The variables of the PDF walk, left alone by the other branches.
walkVars == <<pageNum, items, itemIdx, pageHtml, lastY, currentParagraph, fullHtml>>

\* 1. HTML: return textData || ""
ReturnHtml ==
    /\ UNCHANGED appVars
    /\ pc = "start"
    /\ IsHtml
    /\ outcome' = Returned(IF textData.defined THEN textData.value ELSE <<>>)
    /\ pc' = "settled"
    /\ branch' = "html"
    /\ UNCHANGED <<mobi, epub, file, textData, env, calls>>
    /\ UNCHANGED walkVars

\* 2. Word document: window.mammoth.convertToHtml, result.value
ConvertDocx ==
    /\ UNCHANGED appVars
    /\ pc = "start"
    /\ ~IsHtml
    /\ IsDocx
    /\ IF ~env.mammoth
       THEN outcome' = Threw(MsgNoMammoth) /\ calls' = calls
       ELSE /\ calls' = Append(calls, "mammoth.convertToHtml")
            /\ outcome' = IF env.mammothFails THEN Threw(env.failure)
                          ELSE Returned(env.mammothValue)
    /\ pc' = "settled"
    /\ branch' = "docx"
    /\ UNCHANGED <<mobi, epub, file, textData, env>>
    /\ UNCHANGED walkVars

\* 3. PDF: window.pdfjsLib.getDocument, fullHtml = ""
OpenPdf ==
    /\ UNCHANGED appVars
    /\ pc = "start"
    /\ ~IsHtml
    /\ ~IsDocx
    /\ IsPdf
    /\ IF ~env.pdfjsLib
       THEN outcome' = Threw(MsgNoPdfJs) /\ calls' = calls /\ pc' = "settled"
       ELSE /\ calls' = Append(calls, "pdfjsLib.getDocument")
            /\ IF env.pdfFails
               THEN outcome' = Threw(env.failure) /\ pc' = "settled"
               ELSE outcome' = outcome /\ pc' = "pages"
    /\ fullHtml' = <<>>
    /\ pageNum' = 1
    /\ branch' = "pdf"
    /\ UNCHANGED <<mobi, epub, file, textData, env>>
    /\ UNCHANGED <<items, itemIdx, pageHtml, lastY, currentParagraph>>

\* throw new Error("Unsupported file type for offline conversion.")
RejectUnsupported ==
    /\ UNCHANGED appVars
    /\ pc = "start"
    /\ ~IsHtml
    /\ ~IsDocx
    /\ ~IsPdf
    /\ outcome' = Threw(MsgUnsupported)
    /\ pc' = "settled"
    /\ branch' = "unsupported"
    /\ UNCHANGED <<mobi, epub, file, textData, env, calls>>
    /\ UNCHANGED walkVars

\* textContent.items.map(...)
MapItem(item) ==
    [str |-> item.str, y |-> item.y, x |-> item.x,
     height |-> OrElse(item.height, Fin(DefaultHeight))]

\* (a, b) => b.y - a.y || a.x - b.x
Compare(a, b) == OrElse(Sub(b.y, a.y), Sub(a.x, b.x))

\* ECMAScript's consistent comparator, over the elements being sorted.
ConsistentComparator(list) ==
    LET n == Len(list)
        s(i, j) == SignOf(Compare(list[i], list[j]))
    IN /\ \A i \in 1..n : s(i, i) = 0
       /\ \A i, j \in 1..n : s(i, j) = 0 => s(j, i) = 0
       /\ \A i, j, l \in 1..n :
            /\ (s(i, j) = 0 /\ s(j, l) = 0) => s(i, l) = 0
            /\ (s(i, j) < 0 /\ s(j, l) < 0) => s(i, l) < 0
            /\ (s(i, j) > 0 /\ s(j, l) > 0) => s(i, l) > 0

\* Array.prototype.sort: the stable order under a consistent comparator, an
\* implementation-defined permutation otherwise.
SortOrders(list) ==
    LET n == Len(list)
        perms == {p \in [1..n -> 1..n] : \A i, j \in 1..n : i # j => p[i] # p[j]}
    IN IF ConsistentComparator(list)
       THEN {p \in perms :
               \A i, j \in 1..n :
                  i < j => LET c == SignOf(Compare(list[p[i]], list[p[j]]))
                           IN c < 0 \/ (c = 0 /\ p[i] < p[j])}
       ELSE perms

\* page = await pdf.getPage(i); items mapped and sorted; the walk's variables set
LoadPage ==
    /\ UNCHANGED appVars
    /\ pc = "pages"
    /\ pageNum <= Len(env.pages)
    /\ \E p \in SortOrders([i \in 1..Len(env.pages[pageNum]) |->
                               MapItem(env.pages[pageNum][i])]) :
          items' = [i \in 1..Len(env.pages[pageNum]) |->
                       MapItem(env.pages[pageNum][p[i]])]
    /\ calls' = calls \o <<"pdf.getPage", "page.getTextContent">>
    /\ pageHtml' = <<>>
    /\ lastY' = Fin(-1)
    /\ currentParagraph' = <<>>
    /\ itemIdx' = 0
    /\ pc' = "walk"
    /\ branch' = "load"
    /\ UNCHANGED <<mobi, epub, file, textData, env, pageNum, fullHtml, outcome>>

\* A plausible slip: the paragraph is emitted without the emptiness test.
FlushAlways(html, paragraph) == html \o StrPOpen \o Trim(paragraph) \o StrPClose

\* if (currentParagraph.trim().length > 0) pageHtml += `<p>${currentParagraph.trim()}</p>`
Flush(html, paragraph) ==
    IF Len(Trim(paragraph)) > 0
    THEN html \o StrPOpen \o Trim(paragraph) \o StrPClose
    ELSE html

\* if (lastY === -1): the first item seeds the buffer
SeedItem ==
    /\ UNCHANGED appVars
    /\ pc = "walk"
    /\ itemIdx < Len(items)
    /\ lastY = Fin(-1)
    /\ currentParagraph' = currentParagraph \o items[itemIdx + 1].str
    /\ lastY' = items[itemIdx + 1].y
    /\ itemIdx' = itemIdx + 1
    /\ branch' = "seed"
    /\ UNCHANGED <<mobi, epub, file, textData, env, pc, pageNum, items, pageHtml,
                   fullHtml, calls, outcome>>

\* diffY > item.height * 1.5: new paragraph
SplitItem ==
    /\ UNCHANGED appVars
    /\ pc = "walk"
    /\ itemIdx < Len(items)
    /\ lastY # Fin(-1)
    /\ ExceedsGap(Abs(Sub(items[itemIdx + 1].y, lastY)), items[itemIdx + 1].height)
    /\ pageHtml' = Flush(pageHtml, currentParagraph)
    /\ currentParagraph' = items[itemIdx + 1].str
    /\ lastY' = items[itemIdx + 1].y
    /\ itemIdx' = itemIdx + 1
    /\ branch' = "split"
    /\ UNCHANGED <<mobi, epub, file, textData, env, pc, pageNum, items, fullHtml,
                   calls, outcome>>

\* otherwise: same line or close enough
MergeItem ==
    /\ UNCHANGED appVars
    /\ pc = "walk"
    /\ itemIdx < Len(items)
    /\ lastY # Fin(-1)
    /\ ~ExceedsGap(Abs(Sub(items[itemIdx + 1].y, lastY)), items[itemIdx + 1].height)
    /\ currentParagraph' =
         (IF ~EndsWith(currentParagraph, StrSpace)
             /\ ~StartsWith(items[itemIdx + 1].str, StrSpace)
          THEN currentParagraph \o StrSpace
          ELSE currentParagraph)
         \o items[itemIdx + 1].str
    /\ lastY' = items[itemIdx + 1].y
    /\ itemIdx' = itemIdx + 1
    /\ branch' = "merge"
    /\ UNCHANGED <<mobi, epub, file, textData, env, pc, pageNum, items, pageHtml,
                   fullHtml, calls, outcome>>

\* A plausible slip: every page is wrapped, whether or not it has paragraphs.
EndPageWrapsEmpty ==
    /\ UNCHANGED appVars
    /\ pc = "walk"
    /\ itemIdx = Len(items)
    /\ pageHtml' = Flush(pageHtml, currentParagraph)
    /\ fullHtml' = fullHtml \o StrPageOpen \o pageHtml' \o StrPageClose
    /\ pageNum' = pageNum + 1
    /\ pc' = "pages"
    /\ branch' = "flush"
    /\ UNCHANGED <<mobi, epub, file, textData, env, items, itemIdx, lastY,
                   currentParagraph, calls, outcome>>

\* Flush last paragraph; a page with paragraphs is wrapped and appended
EndPage ==
    /\ UNCHANGED appVars
    /\ pc = "walk"
    /\ itemIdx = Len(items)
    /\ pageHtml' = Flush(pageHtml, currentParagraph)
    /\ fullHtml' = IF Len(pageHtml') > 0
                   THEN fullHtml \o StrPageOpen \o pageHtml' \o StrPageClose
                   ELSE fullHtml
    /\ pageNum' = pageNum + 1
    /\ pc' = "pages"
    /\ branch' = "flush"
    /\ UNCHANGED <<mobi, epub, file, textData, env, items, itemIdx, lastY,
                   currentParagraph, calls, outcome>>

\* return fullHtml
ReturnPdf ==
    /\ UNCHANGED appVars
    /\ pc = "pages"
    /\ pageNum > Len(env.pages)
    /\ outcome' = Returned(fullHtml)
    /\ pc' = "settled"
    /\ branch' = "return"
    /\ UNCHANGED <<mobi, epub, file, textData, env, calls>>
    /\ UNCHANGED walkVars

-----------------------------------------------------------------------------
(* Inputs of the encoder                                                   *)

MaxTitleChars == 2
MaxHtmlChars == 2

\* Characters of one, two and three UTF-8 bytes, and one outside the BMP,
\* which a JavaScript string holds as a surrogate pair (four UTF-8 bytes).
TitleChars == {<<65>>, <<233>>, <<8364>>, <<55357, 56832>>}
HtmlChars == {<<60>>, <<8364>>}

Titles == {Flatten(cs) : cs \in SeqsUpTo(TitleChars, MaxTitleChars)}
Htmls == {Flatten(cs) : cs \in SeqsUpTo(HtmlChars, MaxHtmlChars)}

\* Date.now() in seconds, as halves: 1793628000 (November 2026) and
\* 2212122497 (February 2040, when the Palm date has passed 2^32).
UnixSeconds == {[hi |-> 27368, lo |-> 38752], [hi |-> 33754, lo |-> 20353]}

\* n copies of the string s, one after the other.
Repeat(s, n) == Flatten([i \in 1..n |-> s])

\* Titles around the cut at 31 characters and the 32 bytes of the name: of
\* 31, 32 and 40 one-byte characters; of 15 and 16 two-byte characters (30
\* and 32 bytes); of 11 and 31 three-byte characters (33 and 93 bytes); and
\* one whose characters 31 and 32 are the two halves of a surrogate pair.
LongTitles == { Repeat(<<65>>, 31), Repeat(<<65>>, 32), Repeat(<<65>>, 40),
                Repeat(<<233>>, 15), Repeat(<<233>>, 16),
                Repeat(<<8364>>, 11), Repeat(<<8364>>, 31),
                Repeat(<<65>>, 30) \o <<55357, 56832>> }

TitleArgs == {[defined |-> TRUE, value |-> t] : t \in Titles \cup LongTitles}
             \cup {[defined |-> FALSE, value |-> <<>>]}

-----------------------------------------------------------------------------
(* Inputs of the packager                                                  *)

EpubTitleArgs == {[defined |-> TRUE, value |-> t] :
                     t \in {"", "Book", "A & B", "report.final", "<i>"}}
                 \cup {[defined |-> FALSE, value |-> ""]}
EpubHtmls == {"", "<p>Hello World</p>", "<div class=\"page-content\"><p>x</p></div>",
              "plain text"}

-----------------------------------------------------------------------------
(* Inputs of the normalizer                                                *)

MaxItems == 2
MaxPages == 2

\* "hello", "hello ", "world"
StrHello == <<104, 101, 108, 108, 111>>
StrHelloSp == <<104, 101, 108, 108, 111, 32>>
StrWorld == <<119, 111, 114, 108, 100>>

Frag(str, y, x, height) == [str |-> str, y |-> y, x |-> x, height |-> height]

Texts == {<<>>, StrSpace, StrHello, StrHelloSp, StrWorld}
Ys == {Fin(3), Fin(0), Fin(-1), Fin(-5), NaN, Inf(1)}
Heights == {Undefined, Fin(0), Fin(-2), Fin(2)}

\* What the PDF parser may report for one text item: every text at the
\* finite positions with height 2; "hello" at every position with every
\* height; and two items that differ from those in x alone.
Fragments ==
    {Frag(s, y, Fin(0), Fin(2)) : s \in Texts, y \in {Fin(3), Fin(0), Fin(-1), Fin(-5)}}
    \cup {Frag(StrHello, y, Fin(0), h) : y \in Ys, h \in Heights}
    \cup {Frag(StrWorld, Fin(0), x, Fin(2)) : x \in {Fin(1), NaN}}

\* Pages of the documents of more than one page.
FewPages == { <<>>,
              <<Frag(StrSpace, Fin(0), Fin(0), Fin(2))>>,
              <<Frag(StrHello, Fin(0), Fin(0), Fin(2))>>,
              <<Frag(StrWorld, Fin(-5), Fin(0), Fin(2)),
                Frag(StrHello, Fin(3), Fin(0), Fin(2))>> }

PdfDocuments ==
    {<<page>> : page \in SeqsUpTo(Fragments, MaxItems)}
    \cup {doc \in SeqsUpTo(FewPages, MaxPages) : Len(doc) # 1}

\* 'application/msword', 'text/plain'
TypeMsword == <<97, 112, 112, 108, 105, 99, 97, 116, 105, 111, 110, 47, 109, 115,
                119, 111, 114, 100>>
TypePlain == <<116, 101, 120, 116, 47, 112, 108, 97, 105, 110>>

\* "a.html", "b.HTM", "c.docx", "d.PDF", "e.doc", "f.txt", "g"
FileNames == { <<97, 46, 104, 116, 109, 108>>, <<98, 46, 72, 84, 77>>,
               <<99, 46, 100, 111, 99, 120>>, <<100, 46, 80, 68, 70>>,
               <<101, 46, 100, 111, 99>>, <<102, 46, 116, 120, 116>>, <<103>> }
FileTypes == {<<>>, TypeHtml, TypeDocx, TypePdf, TypeMsword, TypePlain}
Files == {[type |-> t, name |-> n] : t \in FileTypes, n \in FileNames}

\* "<p>Hi</p>"
StrSomeHtml == <<60, 112, 62, 72, 105, 60, 47, 112, 62>>
TextDatas == { [defined |-> FALSE, value |-> <<>>],
               [defined |-> TRUE, value |-> <<>>],
               [defined |-> TRUE, value |-> StrSomeHtml] }

\* The message of an error a collaborator rejects with: "corrupt"
MsgCorrupt == <<99, 111, 114, 114, 117, 112, 116>>

Env(mammoth, pdfjsLib, mammothFails, pdfFails, pages) ==
    [mammoth |-> mammoth, pdfjsLib |-> pdfjsLib, mammothFails |-> mammothFails,
     mammothValue |-> StrSomeHtml, pdfFails |-> pdfFails, failure |-> MsgCorrupt,
     pages |-> pages]

-----------------------------------------------------------------------------
(* Dropzone (src/components/Dropzone.tsx) and App (src/App.tsx).  The      *)
(* component's state is app; a handleConvert call in flight is job, which  *)
(* holds what the call closed over when the button was clicked and where   *)
(* the call stands between its awaits.  The locals of convertLocalFile,    *)
(* createMobiBlob and createEpubBlob are the variables above, given up     *)
(* when the call's result has been taken.                                  *)

\* 'doc' of /\.(pdf|doc|docx|html|htm)$/i, with its full stop
ExtDoc ==
    <<46, 100, 111, 99>>
\* '.epub', '.azw3'
ExtEpubOut ==
    <<46, 101, 112, 117, 98>>
ExtAzw3Out ==
    <<46, 97, 122, 119, 51>>
\* "An unexpected error occurred during conversion."
MsgUnexpected ==
    <<65, 110, 32, 117, 110, 101, 120, 112, 101, 99, 116, 101, 100, 32, 101,
      114, 114, 111, 114, 32, 111, 99, 99, 117, 114, 114, 101, 100, 32, 100,
      117, 114, 105, 110, 103, 32, 99, 111, 110, 118, 101, 114, 115, 105,
      111, 110, 46>>
\* 'Failed to read text file', 'Failed to read file as ArrayBuffer'
MsgReadText ==
    <<70, 97, 105, 108, 101, 100, 32, 116, 111, 32, 114, 101, 97, 100, 32,
      116, 101, 120, 116, 32, 102, 105, 108, 101>>
MsgReadBuffer ==
    <<70, 97, 105, 108, 101, 100, 32, 116, 111, 32, 114, 101, 97, 100, 32,
      102, 105, 108, 101, 32, 97, 115, 32, 65, 114, 114, 97, 121, 66, 117,
      102, 102, 101, 114>>
\* "JSZip library not loaded. Check internet connection."
MsgNoJSZip ==
    <<74, 83, 90, 105, 112, 32, 108, 105, 98, 114, 97, 114, 121, 32, 110,
      111, 116, 32, 108, 111, 97, 100, 101, 100, 46, 32, 67, 104, 101, 99,
      107, 32, 105, 110, 116, 101, 114, 110, 101, 116, 32, 99, 111, 110,
      110, 101, 99, 116, 105, 111, 110, 46>>

\* null, and a value that is not null
Null == [defined |-> FALSE, value |-> <<>>]
Some(v) == [defined |-> TRUE, value |-> v]

\* name.match(/\.(e1|e2|...)$/i), exts holding the alternatives with the
\* full stop (the names drawn hold no cased character outside A-Z).
MatchesExt(name, exts) == \E e \in exts : EndsWith(ToLowerCase(name), e)

allowedTypes == {TypePdf, TypeMsword, TypeDocx, TypeHtml}

\* validateAndSelect's test
Accepts(f) ==
    f.type \in allowedTypes
    \/ MatchesExt(f.name, {ExtPdf, ExtDoc, ExtDocx, ExtHtml, ExtHtm})

\* const isHtml = selectedFile.type === 'text/html' || selectedFile.name.match(/\.(html|htm)$/i)
isHtml(f) == f.type = TypeHtml \/ MatchesExt(f.name, {ExtHtml, ExtHtm})

\* selectedFile.name.replace(/\.[^/.]+$/, ""): the last full stop and what
\* follows it are dropped when that is not empty and holds no solidus.
bookTitle(name) ==
    LET dots == {i \in 1..Len(name) : name[i] = 46}
        last == CHOOSE i \in dots : \A j \in dots : j <= i
    IN IF dots # {} /\ last < Len(name)
          /\ \A i \in (last + 1)..Len(name) : name[i] # 47
       THEN SubSeq(name, 1, last - 1)
       ELSE name

\* What a promise rejects with: an Error with a message, or an event of
\* FileReader.onerror, which has no message property.
ErrorOf(message) == [message |-> Some(message)]
ProgressEvent == [message |-> Null]

AppIdle == [status |-> "IDLE", selectedFile |-> Null, result |-> Null,
            errorMessage |-> Null, outputFormat |-> "epub", jszip |-> FALSE]

JobIdle == [pc |-> "none", file |-> [type |-> <<>>, name |-> <<>>],
            outputFormat |-> "epub", htmlContent |-> <<>>]

\* handleFileSelect
handleFileSelect(a, f) ==
    [a EXCEPT !.selectedFile = Some(f), !.status = "IDLE", !.errorMessage = Null,
              !.result = Null]

\* A plausible slip: the failure is logged and the status left as it is.
CatchErrorLogsOnly(a, error) == a

\* catch (error): setErrorMessage(error.message || "An unexpected ..."); setStatus(ERROR)
CatchError(a, error) ==
    [a EXCEPT !.errorMessage =
                 Some(IF error.message.defined /\ error.message.value # <<>>
                      THEN error.message.value ELSE MsgUnexpected),
              !.status = "ERROR"]

\* The stage with the format buttons, Cancel and Convert is rendered.
SelectedStage == app.selectedFile.defined /\ ~app.result.defined

\* The Convert button takes clicks: it is rendered and not loading.
ConvertButtonEnabled == SelectedStage /\ app.status # "PROCESSING"

\* A button bound to handleReset takes clicks: Cancel unless disabled, or
\* Convert Another of the result stage.
ResetButtonEnabled ==
    (SelectedStage /\ app.status # "PROCESSING") \/ app.result.defined

\* The variables of a conversion that has no call in progress.
convLocals == <<file, textData, pc, pageNum, items, itemIdx, pageHtml, lastY,
                currentParagraph, fullHtml, branch, calls, outcome>>

\* The call of convertLocalFile has returned and its locals are gone.
DropConvLocals ==
    /\ file' = [type |-> <<>>, name |-> <<>>]
    /\ textData' = Null
    /\ pc' = "idle"
    /\ pageNum' = 1
    /\ items' = <<>>
    /\ itemIdx' = 0
    /\ pageHtml' = <<>>
    /\ lastY' = Fin(-1)
    /\ currentParagraph' = <<>>
    /\ fullHtml' = <<>>
    /\ branch' = "none"
    /\ calls' = <<>>
    /\ outcome' = Pending

\* Dropzone: a file is dropped or chosen; an accepted one is handed to
\* handleFileSelect, any other only raises an alert.
validateAndSelect ==
    /\ ~app.selectedFile.defined
    /\ \E f \in Files :
          app' = IF Accepts(f) THEN handleFileSelect(app, f) ELSE app
    /\ UNCHANGED <<mobi, epub, env, job>>
    /\ UNCHANGED convLocals

\* onClick={() => setOutputFormat('epub' | 'azw3')}
setOutputFormat ==
    /\ SelectedStage
    /\ \E format \in {"epub", "azw3"} : app' = [app EXCEPT !.outputFormat = format]
    /\ UNCHANGED <<mobi, epub, env, job>>
    /\ UNCHANGED convLocals

\* handleConvert up to its first await: the call closes over selectedFile
\* and outputFormat of the render the click was made in.
handleConvert ==
    /\ ConvertButtonEnabled
    /\ app' = [app EXCEPT !.status = "PROCESSING", !.errorMessage = Null]
    /\ job' = [pc |-> "read", file |-> app.selectedFile.value,
               outputFormat |-> app.outputFormat, htmlContent |-> <<>>]
    /\ UNCHANGED <<mobi, epub, env>>
    /\ UNCHANGED convLocals

\* handleReset
handleReset ==
    /\ ResetButtonEnabled
    /\ app' = [app EXCEPT !.selectedFile = Null, !.result = Null, !.status = "IDLE",
                          !.errorMessage = Null]
    /\ UNCHANGED <<mobi, epub, env, job>>
    /\ UNCHANGED convLocals

\* What readTextFile or readFileAsArrayBuffer settles with for the file.
ReadResults(f) ==
    IF isHtml(f)
    THEN {[ok |-> TRUE, textData |-> Some(t)] : t \in {<<>>, StrSomeHtml}}
         \cup {[ok |-> FALSE, error |-> e] : e \in {ErrorOf(MsgReadText), ProgressEvent}}
    ELSE {[ok |-> TRUE, textData |-> Null]}
         \cup {[ok |-> FALSE, error |-> e] : e \in {ErrorOf(MsgReadBuffer), ProgressEvent}}

\* await readTextFile / readFileAsArrayBuffer settles; convertLocalFile is called
ReadSettles ==
    /\ job.pc = "read"
    /\ \E r \in ReadResults(job.file) :
          IF r.ok
          THEN /\ job' = [job EXCEPT !.pc = "normalize"]
               /\ file' = job.file
               /\ textData' = r.textData
               /\ pc' = "start"
               /\ app' = app
          ELSE /\ job' = JobIdle
               /\ app' = CatchError(app, r.error)
               /\ UNCHANGED <<file, textData, pc>>
    /\ UNCHANGED <<mobi, epub, env, pageNum, items, itemIdx, pageHtml, lastY,
                   currentParagraph, fullHtml, branch, calls, outcome>>

\* await convertLocalFile settles; the packager of the format is called
NormalizeSettles ==
    /\ job.pc = "normalize"
    /\ pc = "settled"
    /\ IF outcome.k = "threw"
       THEN /\ job' = JobIdle
            /\ app' = CatchError(app, ErrorOf(outcome.value))
            /\ UNCHANGED <<mobi, epub>>
       ELSE /\ job' = [job EXCEPT !.pc = "package", !.htmlContent = outcome.value]
            /\ app' = app
            /\ IF job.outputFormat = "azw3"
               THEN /\ \E u \in UnixSeconds :
                          mobi' = [MobiIdle EXCEPT !.pc = "start",
                                      !.titleArg = Some(bookTitle(job.file.name)),
                                      !.htmlContent = outcome.value,
                                      !.unixSeconds = u]
                    /\ epub' = epub
               ELSE /\ epub' = [EpubIdle EXCEPT !.pc = "start",
                                   !.titleArg = Some(bookTitle(job.file.name)),
                                   !.htmlContent = outcome.value,
                                   !.jszip = app.jszip]
                    /\ mobi' = mobi
    /\ DropConvLocals
    /\ UNCHANGED env

\* The Blob the packager resolved with.
BlobBuilt ==
    IF mobi.pc = "done"
    THEN [type |-> "application/x-mobipocket-ebook", data |-> mobi.buffer]
    ELSE [type |-> epub.mimeType, data |-> epub.entries]

\* await createMobiBlob / createEpubBlob settles: the result is published,
\* or the failure caught.
PackageSettles ==
    /\ job.pc = "package"
    /\ {mobi.pc, epub.pc} \cap {"done", "threw"} # {}
    /\ app' = IF "done" \in {mobi.pc, epub.pc}
              THEN [app EXCEPT
                      !.result =
                         Some([fileName |-> bookTitle(job.file.name)
                                            \o (IF job.outputFormat = "azw3"
                                                THEN ExtAzw3Out ELSE ExtEpubOut),
                               originalName |-> job.file.name,
                               content |-> job.htmlContent,
                               blobUrl |-> BlobBuilt]),
                      !.status = "COMPLETED"]
              ELSE CatchError(app, IF epub.pc = "threw" THEN ErrorOf(MsgNoJSZip)
                                   ELSE ErrorOf(<<>>))
    /\ job' = JobIdle
    /\ mobi' = MobiIdle
    /\ epub' = EpubIdle
    /\ UNCHANGED env
    /\ UNCHANGED convLocals

\* The globals the App finds: both parsers loaded and working, none
\* loaded, both loaded and failing; the document a PDF parses to has a page
\* of two paragraphs and a page of one line in two fragments.
AppPages ==
    << <<Frag(StrHello, Fin(3), Fin(0), Fin(2)), Frag(StrWorld, Fin(-5), Fin(0), Fin(2))>>,
       <<Frag(StrHello, Fin(0), Fin(0), Fin(2)), Frag(StrWorld, Fin(0), Fin(1), Fin(2))>> >>
AppEnvs == { Env(TRUE, TRUE, FALSE, FALSE, AppPages),
             Env(FALSE, FALSE, FALSE, FALSE, AppPages),
             Env(TRUE, TRUE, TRUE, TRUE, AppPages) }

-----------------------------------------------------------------------------
(* Specifications                                                          *)

ConvIdle ==
    /\ file = [type |-> <<>>, name |-> <<>>]
    /\ textData = [defined |-> FALSE, value |-> <<>>]
    /\ env = Env(FALSE, FALSE, FALSE, FALSE, <<>>)
    /\ pc = "idle"
    /\ pageNum = 1
    /\ items = <<>>
    /\ itemIdx = 0
    /\ pageHtml = <<>>
    /\ lastY = Fin(-1)
    /\ currentParagraph = <<>>
    /\ fullHtml = <<>>
    /\ branch = "none"
    /\ calls = <<>>
    /\ outcome = Pending
    /\ app = AppIdle
    /\ job = JobIdle

\* createMobiBlob on every title, content and clock value.
InitMobi ==
    /\ mobi \in {[MobiIdle EXCEPT !.pc = "start", !.titleArg = t, !.htmlContent = h,
                                  !.unixSeconds = u] :
                    t \in TitleArgs, h \in Htmls, u \in UnixSeconds}
    /\ epub = EpubIdle
    /\ ConvIdle

NextMobi == createMobiBlob

SpecMobi == InitMobi /\ [][NextMobi]_vars

\* createEpubBlob on every title and content, with and without JSZip.
InitEpub ==
    /\ epub \in {[EpubIdle EXCEPT !.pc = "start", !.titleArg = t, !.htmlContent = h,
                                  !.jszip = z] :
                    t \in EpubTitleArgs, h \in EpubHtmls, z \in BOOLEAN}
    /\ mobi = MobiIdle
    /\ ConvIdle

NextEpub == createEpubBlob

SpecEpub == InitEpub /\ [][NextEpub]_vars

\* convertLocalFile: every file kind with every state of the collaborators
\* on a one-item document, and a PDF file on every document.
Init ==
    /\ mobi = MobiIdle
    /\ epub = EpubIdle
    /\ \/ /\ file \in Files
          /\ textData \in TextDatas
          /\ env \in {Env(m, p, mf, pf, <<<<Frag(StrHello, Fin(0), Fin(0), Fin(2))>>>>) :
                         m \in BOOLEAN, p \in BOOLEAN, mf \in BOOLEAN, pf \in BOOLEAN}
       \/ /\ file = [type |-> TypePdf, name |-> <<100, 46, 80, 68, 70>>]
          /\ textData = [defined |-> FALSE, value |-> <<>>]
          /\ env \in {Env(TRUE, TRUE, FALSE, FALSE, doc) : doc \in PdfDocuments}
    /\ pc = "start"
    /\ pageNum = 1
    /\ items = <<>>
    /\ itemIdx = 0
    /\ pageHtml = <<>>
    /\ lastY = Fin(-1)
    /\ currentParagraph = <<>>
    /\ fullHtml = <<>>
    /\ branch = "none"
    /\ calls = <<>>
    /\ outcome = Pending
    /\ app = AppIdle
    /\ job = JobIdle

Next ==
    \/ ReturnHtml
    \/ ConvertDocx
    \/ OpenPdf
    \/ RejectUnsupported
    \/ LoadPage
    \/ SeedItem
    \/ SplitItem
    \/ MergeItem
    \/ EndPage
    \/ ReturnPdf

Spec == Init /\ [][Next]_vars

\* The App, from its first render, with each state of the globals.
InitApp ==
    /\ mobi = MobiIdle
    /\ epub = EpubIdle
    /\ file = [type |-> <<>>, name |-> <<>>]
    /\ textData = Null
    /\ env \in AppEnvs
    /\ pc = "idle"
    /\ pageNum = 1
    /\ items = <<>>
    /\ itemIdx = 0
    /\ pageHtml = <<>>
    /\ lastY = Fin(-1)
    /\ currentParagraph = <<>>
    /\ fullHtml = <<>>
    /\ branch = "none"
    /\ calls = <<>>
    /\ outcome = Pending
    /\ app \in {[AppIdle EXCEPT !.jszip = z] : z \in BOOLEAN}
    /\ job = JobIdle

\* A step of the handleConvert call in flight or of a function it awaits.
ConversionStep ==
    \/ ReadSettles
    \/ Next
    \/ NormalizeSettles
    \/ createMobiBlob
    \/ createEpubBlob
    \/ PackageSettles

NextApp ==
    \/ validateAndSelect
    \/ setOutputFormat
    \/ handleConvert
    \/ handleReset
    \/ ConversionStep

SpecApp == InitApp /\ [][NextApp]_vars

\* Every promise the call awaits settles: no step of the call is delayed
\* for ever.  createMobiBlob and createEpubBlob are enabled exactly at the
\* position "start" of their records and are the only steps that leave it,
\* so their weak fairness is that the position is left again and again.
SpecAppFair ==
    /\ SpecApp
    /\ WF_vars(ReadSettles \/ Next \/ NormalizeSettles \/ PackageSettles)
    /\ []<>(mobi.pc # "start")
    /\ []<>(epub.pc # "start")

-----------------------------------------------------------------------------
(* Claims about createMobiBlob, checked under SpecMobi                     *)

\* The two record offsets the record-info table of a buffer declares.
StoredOffset0 == GetUint32(mobi.buffer, 78)
StoredOffset1 == GetUint32(mobi.buffer, 86)

\* The UTF-8 bytes of the title-wrapped document of the call.
WrappedBytes == stringToUint8Array(fullContent(MobiTitle, mobi.htmlContent))

\* C1: for every title and content a buffer is produced, and its record-info
\* table (32-bit big-endian values at bytes 78 and 86) holds exactly the
\* positions at which Record 0 and Record 1 were written; Record 0 (the
\* PalmDOC header, then the MOBI header) starts right after the record-info
\* table, Record 1 right after Record 0, and Record 1 ends at the end of the
\* buffer.
C1_RecordOffsetsLocateRecords ==
    /\ mobi.pc # "threw"
    /\ mobi.pc = "done" =>
         /\ StoredOffset0 = mobi.rec0Start
         /\ StoredOffset1 = mobi.contentStart
         /\ StoredOffset0 = PDB_HEADER_LEN + GetUint16(mobi.buffer, 76) * RECORD_INFO_LEN
         /\ GetUint16(mobi.buffer, StoredOffset0) = 1
         /\ SubSeq(mobi.buffer, StoredOffset0 + PALMDOC_HEADER_LEN + 1,
                   StoredOffset0 + PALMDOC_HEADER_LEN + 4) = StrMOBI
         /\ StoredOffset1 = StoredOffset0 + PALMDOC_HEADER_LEN
                            + GetUint32(mobi.buffer, StoredOffset0 + PALMDOC_HEADER_LEN + 4)
         /\ StoredOffset1 + Len(WrappedBytes) = Len(mobi.buffer)

C1_Witness ==
    /\ mobi.pc = "done"
    /\ mobi.titleArg.defined
    /\ Len(mobi.titleArg.value) > 0
    /\ Len(mobi.htmlContent) > 0
    /\ StoredOffset0 = 94
    /\ StoredOffset1 = 342

\* C2: for every title and content, the bytes of the buffer from the stored
\* Record 1 offset to its end are the UTF-8 encoding of the title-wrapped
\* document, and the PalmDOC text-length field is the number of those bytes.
C2_TextRecordIsEncodedDocument ==
    /\ mobi.pc # "threw"
    /\ mobi.pc = "done" =>
         /\ SubSeq(mobi.buffer, StoredOffset1 + 1, Len(mobi.buffer)) = WrappedBytes
         /\ GetUint32(mobi.buffer, StoredOffset0 + 4) = Len(WrappedBytes)

\* A document whose byte count differs from its character count.
C2_Witness ==
    /\ mobi.pc = "done"
    /\ Len(WrappedBytes) > Len(fullContent(MobiTitle, mobi.htmlContent))
    /\ GetUint32(mobi.buffer, StoredOffset0 + 4) = Len(WrappedBytes)

\* C3 as stated: a zero-byte document gives a buffer of exactly the fixed
\* header size (78 + 2 x 8 + 16 + 232) with a zero-length text record.
C3_ZeroByteHtmlGivesHeaderOnly ==
    (mobi.pc = "done" /\ mobi.htmlContent = <<>>) =>
        /\ Len(mobi.buffer) = 78 + 2 * 8 + 16 + 232
        /\ GetUint32(mobi.buffer, StoredOffset0 + 4) = 0

\* The bytes of the wrapper around an empty body: the markup and the title
\* twice.
EmptyDocumentBytes ==
    Len(WrapOpen) + Len(WrapMid) + Len(WrapH1Close) + Len(WrapClose)
    + 2 * Len(stringToUint8Array(MobiTitle))

\* C3 (amended): a zero-byte document gives a buffer of the fixed header
\* size plus the bytes of the title wrapper around an empty body, and the
\* PalmDOC text length is that number of bytes, which is never zero.
C3_ZeroByteHtmlGivesWrapperOnly ==
    (mobi.pc = "done" /\ mobi.htmlContent = <<>>) =>
        /\ EmptyDocumentBytes > 0
        /\ Len(mobi.buffer) = 78 + 2 * 8 + 16 + 232 + EmptyDocumentBytes
        /\ GetUint32(mobi.buffer, StoredOffset0 + 4) = EmptyDocumentBytes

C3_Witness ==
    /\ mobi.pc = "done"
    /\ mobi.htmlContent = <<>>
    /\ mobi.titleArg.defined
    /\ mobi.titleArg.value = <<8364>>
    /\ Len(mobi.buffer) = 342 + 63 + 6

\* The encoding of the title cut to its first 31 characters.
NameBytes == stringToUint8Array(Substring0(MobiTitle, 31))

\* C11: for every title (longer than 31 characters or of multi-byte
\* characters included), the 32 bytes of the name field at offset 0 are the
\* encoding of the title truncated to its first 31 characters followed only
\* by zero bytes, so the last byte of the field is zero, and the write of
\* the field covers no byte at offset 32 or beyond.
C11_NameFieldTerminated ==
    mobi.pc = "done" =>
        /\ Len(NameBytes) <= NAME_LEN - 1
        /\ SubSeq(mobi.buffer, 1, Len(NameBytes)) = NameBytes
        /\ \A i \in (Len(NameBytes) + 1)..NAME_LEN : mobi.buffer[i] = 0
        /\ mobi.buffer[NAME_LEN] = 0
        /\ LET w == writeString(0, Substring0(MobiTitle, 31), NAME_LEN)
           IN w.off + Len(w.bytes) <= NAME_LEN

-----------------------------------------------------------------------------
(* Claims about createEpubBlob, checked under SpecEpub                     *)

\* C4: in every call that returns an archive, the mimetype entry holding
\* application/epub+zip is the first entry, every other entry
\* (container.xml, style.css, content.xhtml, content.opf, toc.ncx) comes
\* after it, and it is the only entry given the STORE option; a call that
\* throws has added no entry.
C4_MimetypeFirstAndStored ==
    /\ epub.pc = "done" =>
         /\ Len(epub.entries) >= 1
         /\ epub.entries[1] = [name |-> "mimetype", dir |-> FALSE,
                               data |-> <<"application/epub+zip">>,
                               compression |-> "STORE"]
         /\ \A i \in 2..Len(epub.entries) :
               /\ epub.entries[i].name # "mimetype"
               /\ epub.entries[i].compression # "STORE"
         /\ \A n \in {"META-INF/container.xml", "OEBPS/style.css",
                      "OEBPS/content.xhtml", "OEBPS/content.opf", "OEBPS/toc.ncx"} :
               \E i \in 2..Len(epub.entries) : epub.entries[i].name = n
    /\ epub.pc = "threw" => epub.entries = <<>>

C4_Witness ==
    /\ epub.pc = "done"
    /\ Len(epub.entries) = 8
    /\ epub.entries[3].name = "META-INF/container.xml"
    /\ epub.titleArg.defined

-----------------------------------------------------------------------------
(* Claims about convertLocalFile, checked under Spec                       *)

\* The walk is about to handle a fragment that is not the first of its page.
AtLaterFragment == pc = "walk" /\ itemIdx >= 1 /\ itemIdx < Len(items)

\* The fragment about to be handled and the one before it in sorted order.
CurItem == items[itemIdx + 1]
PrevItem == items[itemIdx]

\* The step handles CurItem.
HandlesCurItem == AtLaterFragment /\ itemIdx' = itemIdx + 1

\* The fragment is joined to the open paragraph: nothing is emitted and the
\* buffer keeps its text and ends with the fragment's.
JoinsParagraph ==
    /\ pageHtml' = pageHtml
    /\ StartsWith(currentParagraph', currentParagraph)
    /\ EndsWith(currentParagraph', CurItem.str)
    /\ Len(currentParagraph') >= Len(currentParagraph) + Len(CurItem.str)

\* The open paragraph is flushed and the fragment starts a new one.
StartsParagraph ==
    /\ pageHtml' = IF Len(Trim(currentParagraph)) > 0
                   THEN pageHtml \o StrPOpen \o Trim(currentParagraph) \o StrPClose
                   ELSE pageHtml
    /\ currentParagraph' = CurItem.str

\* 2 * |y - y of the preceding fragment|, for finite coordinates.
TwiceDiffY == 2 * Abs(Sub(CurItem.y, PrevItem.y)).v

\* C5: for two fragments adjacent in sorted order, a difference of their y
\* values equal to 1.5 times the later fragment's height joins them in one
\* paragraph, and a difference one unit above it flushes the open paragraph
\* and starts a new one with the later fragment.
C5_GapThresholdBoundary ==
    [][ (HandlesCurItem /\ IsFinite(CurItem.y) /\ IsFinite(PrevItem.y)
           /\ IsFinite(CurItem.height))
        => /\ (TwiceDiffY = 3 * CurItem.height.v) => JoinsParagraph
           /\ (TwiceDiffY = 3 * CurItem.height.v + 2) => StartsParagraph ]_vars

\* C6: when a fragment is joined to the open paragraph (its gap to the
\* preceding fragment does not exceed the threshold), exactly one space is
\* put between buffer and fragment if the buffer does not end with a space
\* and the fragment does not start with one, and none otherwise.
C6_WordSpacing ==
    [][ (HandlesCurItem
           /\ ~ExceedsGap(Abs(Sub(CurItem.y, PrevItem.y)), CurItem.height))
        => currentParagraph' =
              IF ~EndsWith(currentParagraph, StrSpace) /\ ~StartsWith(CurItem.str, StrSpace)
              THEN currentParagraph \o StrSpace \o CurItem.str
              ELSE currentParagraph \o CurItem.str ]_vars

\* s is a run of `<p>`...`</p>` pairs, each around a text that is not empty
\* and has no white space at either end.
RECURSIVE IsParagraphRun(_)
IsParagraphRun(s) ==
    \/ s = <<>>
    \/ /\ StartsWith(s, StrPOpen)
       /\ \E j \in 4..(Len(s) - 3) :
            /\ SubSeq(s, j, j + 3) = StrPClose
            /\ \A l \in 4..(j - 1) : SubSeq(s, l, l + 3) # StrPClose
            /\ j > 4
            /\ ~IsWhiteSpace(s[4])
            /\ ~IsWhiteSpace(s[j - 1])
            /\ ~Contains(SubSeq(s, 4, j - 1), StrPOpen)
            /\ IsParagraphRun(SubSeq(s, j + 4, Len(s)))

\* C7: whatever the fragments of a page (empty or white-space texts
\* included), what the reconstruction has emitted is a run of `<p>`...`</p>`
\* pairs around non-empty trimmed texts: no pair is empty or white space
\* only, whether flushed by a gap or by the final flush.
C7_NoEmptyParagraph == IsParagraphRun(pageHtml)

\* A white-space paragraph was closed by a gap, then a second paragraph by
\* the final flush, and only the second was emitted.
C7_Witness ==
    /\ pc = "pages"
    /\ branch = "flush"
    /\ Len(items) = 2
    /\ Trim(items[1].str) = <<>>
    /\ items[1].str # <<>>
    /\ lastY = Fin(-1)
    /\ items[1].y = Fin(3)
    /\ pageHtml = StrPOpen \o StrHello \o StrPClose

\* C8: a fragment whose y or x is not finite does not make the
\* reconstruction throw and forces a paragraph break: the open paragraph is
\* flushed and the fragment starts a new one.
C8_NonFiniteForcesBreak ==
    [][ (HandlesCurItem /\ (~IsFinite(CurItem.y) \/ ~IsFinite(CurItem.x)))
        => (outcome'.k # "threw" /\ StartsParagraph) ]_vars

\* The height the data model gives a fragment: the reported one when it is
\* positive, 10 when it is unknown, zero or negative.
PositiveOrDefault(height) ==
    IF (height.k = "fin" /\ height.v > 0) \/ (height.k = "inf" /\ height.v > 0)
    THEN height ELSE Fin(10)

\* C9: the height of every fragment of the walk is strictly positive, being
\* the reported height or, when that is unknown, zero or negative, 10.
C9_HeightPositive ==
    pc = "walk" =>
        /\ \A i \in 1..Len(items) :
              items[i].height.k \in {"fin", "inf"} /\ items[i].height.v > 0
        /\ Len(items) = 1 =>
              items[1].height = PositiveOrDefault(env.pages[pageNum][1].height)

\* The part of a name after its last full stop (empty when it has none).
Extension(name) ==
    LET dots == {i \in 1..Len(name) : name[i] = 46}
    IN IF dots = {} THEN <<>>
       ELSE SubSeq(name, (CHOOSE i \in dots : \A j \in dots : j <= i) + 1, Len(name))

\* The message names the media type or the extension of the file.
NamesRejected(message) ==
    \/ (file.type # <<>> /\ Contains(message, file.type))
    \/ (Extension(file.name) # <<>> /\ Contains(message, Extension(file.name)))
    \/ (file.type = <<>> /\ Extension(file.name) = <<>>)

\* C10: a file that matches none of the HTML, .docx and PDF rules makes the
\* normalizer fail with an error naming the rejected media type or
\* extension; nothing is returned and no collaborator is invoked.
C10_UnsupportedNamesFormat ==
    (pc = "settled" /\ ~IsHtml /\ ~IsDocx /\ ~IsPdf) =>
        /\ outcome.k = "threw"
        /\ calls = <<>>
        /\ NamesRejected(outcome.value)

\* C12: in the walk over a page's sorted fragments only the first fragment
\* takes the seed branch; for every later fragment, whatever the y values
\* (0, -1 and other negative coordinates included), lastY is the y of the
\* fragment just before it in sorted order, and the fragment starts a new
\* paragraph when |y - lastY| exceeds the threshold and is joined to the
\* open one otherwise.
C12_OnlyFirstFragmentSeeds ==
    [][ HandlesCurItem
        => /\ lastY = PrevItem.y
           /\ branch' # "seed"
           /\ IF ExceedsGap(Abs(Sub(CurItem.y, lastY)), CurItem.height)
              THEN StartsParagraph
              ELSE JoinsParagraph ]_vars

\* The positions at which p occurs in s.
Occurrences(s, p) == {i \in 1..(Len(s) - Len(p) + 1) : SubSeq(s, i, i + Len(p) - 1) = p}

\* `<hr class="page-break"/>`, the page-break marker
StrPageBreak == SubSeq(StrPageClose, 7, Len(StrPageClose))

\* The page has a fragment whose text is not empty or white space only.
HasText(page) == \E i \in 1..Len(page) : Trim(page[i].str) # <<>>

\* The pages among the first n of the document that have text, in page order.
RECURSIVE PagesWithText(_)
PagesWithText(n) ==
    IF n = 0 THEN <<>>
    ELSE IF HasText(env.pages[n]) THEN Append(PagesWithText(n - 1), n)
    ELSE PagesWithText(n - 1)

\* What the page containers of s hold, in order, s being a run of
\* containers each closed by `</div>` and the page-break marker; <<-1>> is
\* put where s is not such a run.
RECURSIVE PageBlocks(_)
PageBlocks(s) ==
    IF s = <<>> THEN <<>>
    ELSE IF ~StartsWith(s, StrPageOpen) \/ Occurrences(s, StrPageClose) = {}
    THEN << <<-1>> >>
    ELSE LET close == CHOOSE i \in Occurrences(s, StrPageClose) :
                         \A j \in Occurrences(s, StrPageClose) : i <= j
         IN <<SubSeq(s, Len(StrPageOpen) + 1, close - 1)>>
            \o PageBlocks(SubSeq(s, close + Len(StrPageClose), Len(s)))

\* s is, for the first n pages of the document, one container and one
\* page-break marker per page with text, in page order: the container of a
\* page holds a run of paragraphs, not empty, with the text of each of the
\* page's fragments.
IsPageConcatenation(s, n) ==
    LET blocks == PageBlocks(s)
        pages == PagesWithText(n)
    IN /\ Len(blocks) = Len(pages)
       /\ Cardinality(Occurrences(s, StrPageBreak)) = Len(pages)
       /\ \A b \in 1..Len(blocks) :
             /\ blocks[b] # <<>>
             /\ IsParagraphRun(blocks[b])
             /\ \A i \in 1..Len(env.pages[pages[b]]) :
                   Contains(blocks[b], Trim(env.pages[pages[b]][i].str))
       /\ pages = <<>> => s = <<>>

\* C13: for a PDF of any number of pages, what has been accumulated after
\* each page, and what is returned after the last, is the concatenation in
\* page order of one page container followed by one page-break marker for
\* each page that produced a paragraph; a page with no fragment, or with
\* fragments of empty or white-space text only, contributes nothing, and a
\* PDF without text yields the empty string.
C13_PagesConcatenated ==
    /\ pc = "pages" => IsPageConcatenation(fullHtml, pageNum - 1)
    /\ (pc = "settled" /\ branch = "return") =>
          /\ outcome.k = "returned"
          /\ IsPageConcatenation(outcome.value, Len(env.pages))

\* A document of two pages of which only the second has text was returned
\* as one container and one marker.
C13_Witness ==
    /\ pc = "settled"
    /\ branch = "return"
    /\ Len(env.pages) = 2
    /\ env.pages[1] # <<>>
    /\ ~HasText(env.pages[1])
    /\ HasText(env.pages[2])
    /\ outcome.value = StrPageOpen \o StrPOpen \o StrHello \o StrPClose \o StrPageClose

-----------------------------------------------------------------------------
(* Claims about the App, checked under SpecApp and SpecAppFair             *)

\* A result is shown only with the status COMPLETED.
ResultOnlyWhenCompleted == app.result.defined => app.status = "COMPLETED"

\* With the status ERROR there is a message that is not empty, no result,
\* and no call standing anywhere: nothing goes on unless the user acts.
ErrorIsFinal ==
    app.status = "ERROR" =>
        /\ app.errorMessage.defined
        /\ Len(app.errorMessage.value) > 0
        /\ ~app.result.defined
        /\ job.pc = "none"
        /\ pc = "idle"
        /\ mobi.pc = "idle"
        /\ epub.pc = "idle"

\* The step that ends a handleConvert call: after a failed read, a failed
\* normalization or a failed packaging it leaves the status ERROR and no
\* result, and otherwise the status COMPLETED.
AttemptEnds ==
    (job.pc # "none" /\ job'.pc = "none") =>
        IF \/ job.pc = "read"
           \/ (job.pc = "normalize" /\ outcome.k = "threw")
           \/ (job.pc = "package" /\ "threw" \in {mobi.pc, epub.pc})
        THEN app'.status = "ERROR" /\ ~app'.result.defined
        ELSE app'.status = "COMPLETED" /\ app'.result.defined

BuiltFormat(blob) == IF blob.type = "application/epub+zip" THEN "epub" ELSE "azw3"

\* The extension that goes with an output format.
ExtensionOf(format) == IF format = "azw3" THEN ExtAzw3Out ELSE ExtEpubOut

\* C15: whenever a result is shown, the artifact that was built and the
\* extension of its file name are those of the output format now selected,
\* which the download button names, whatever the user toggled while the
\* conversion was in status PROCESSING.
C15_ArtifactMatchesSelectedFormat ==
    app.result.defined =>
        /\ BuiltFormat(app.result.value.blobUrl) = app.outputFormat
        /\ EndsWith(app.result.value.fileName, ExtensionOf(app.outputFormat))

\* C16: every file the Dropzone has accepted and handed to the App is
\* classified by the normalizer into its HTML, Word or PDF path, so that no
\* conversion of it takes the unsupported branch or ends with the
\* unsupported-file-type error.
C16_AcceptedFileHasExtractionPath ==
    /\ app.selectedFile.defined => Accepts(app.selectedFile.value)
    /\ (job.pc = "normalize" /\ pc # "idle") =>
          /\ file = job.file
          /\ IsHtml \/ IsDocx \/ IsPdf
          /\ branch # "unsupported"
    /\ app.status = "ERROR" =>
          app.errorMessage.value # MsgFailedPrefix \o MsgUnsupported

=============================================================================
